---- MODULE Spec2Model ----
(***************************************************************************)
(* Root-Finding-Algorithms-Visualizer: the three iterative root finders of *)
(* RootFindingAlgorithms (bisection, newton_raphson, secant) as a state    *)
(* machine, one step per loop iteration.                                   *)
(*                                                                         *)
(* Numbers.  The algorithms compute on Python floats.  The model computes  *)
(* on exact rationals: every value the model's inputs produce is decided   *)
(* the same way in exact and in double arithmetic (the inputs are small    *)
(* integers and the comparisons have wide margins).  TLC's integers are    *)
(* 32-bit, and the guard constant 1e-10 alone needs more than that, so a   *)
(* rational is a sign and two natural numbers held as sequences of         *)
(* base-10^4 limbs, least significant first.                               *)
(***************************************************************************)
EXTENDS Integers, Sequences, FiniteSets, TLC

(***************************************************************************)
(* Natural numbers of any size                                             *)
(***************************************************************************)
Base == 100 * 100

RECURSIVE BNFromNat(_)
BNFromNat(n) == IF n = 0 THEN <<>> ELSE <<n % Base>> \o BNFromNat(n \div Base)

\* Only used on numbers of at most two limbs (below 10^8).
BNToNat(a) ==
    IF Len(a) = 0 THEN 0
    ELSE IF Len(a) = 1 THEN a[1]
    ELSE a[1] + Base * a[2]

BNSmall(a) == Len(a) <= 2

RECURSIVE BNTrim(_)
BNTrim(a) ==
    IF Len(a) = 0 THEN a
    ELSE IF a[Len(a)] = 0 THEN BNTrim(SubSeq(a, 1, Len(a) - 1))
    ELSE a

RECURSIVE BNCmpAt(_, _, _)
BNCmpAt(a, b, i) ==
    IF i = 0 THEN 0
    ELSE IF a[i] < b[i] THEN -1
    ELSE IF a[i] > b[i] THEN 1
    ELSE BNCmpAt(a, b, i - 1)

\* -1, 0 or 1 as a < b, a = b, a > b.
BNCmp(a, b) ==
    IF Len(a) < Len(b) THEN -1
    ELSE IF Len(a) > Len(b) THEN 1
    ELSE BNCmpAt(a, b, Len(a))

BNLimb(a, i) == IF i <= Len(a) THEN a[i] ELSE 0

RECURSIVE BNAddAt(_, _, _, _)
BNAddAt(a, b, i, carry) ==
    IF i > Len(a) /\ i > Len(b)
    THEN (IF carry = 0 THEN <<>> ELSE <<carry>>)
    ELSE LET s == BNLimb(a, i) + BNLimb(b, i) + carry
         IN  <<s % Base>> \o BNAddAt(a, b, i + 1, s \div Base)

BNAdd(a, b) ==
    IF BNSmall(a) /\ BNSmall(b) THEN BNFromNat(BNToNat(a) + BNToNat(b))
    ELSE BNAddAt(a, b, 1, 0)

RECURSIVE BNSubAt(_, _, _, _)
BNSubAt(a, b, i, borrow) ==
    IF i > Len(a) THEN <<>>
    ELSE LET d == a[i] - BNLimb(b, i) - borrow
         IN  IF d < 0 THEN <<d + Base>> \o BNSubAt(a, b, i + 1, 1)
             ELSE <<d>> \o BNSubAt(a, b, i + 1, 0)

\* a - b, for a >= b.
BNSub(a, b) ==
    IF BNSmall(a) /\ BNSmall(b) THEN BNFromNat(BNToNat(a) - BNToNat(b))
    ELSE BNTrim(BNSubAt(a, b, 1, 0))

RECURSIVE BNMulSmallAt(_, _, _, _)
BNMulSmallAt(a, m, i, carry) ==
    IF i > Len(a)
    THEN (IF carry = 0 THEN <<>> ELSE <<carry>>)
    ELSE LET s == a[i] * m + carry
         IN  <<s % Base>> \o BNMulSmallAt(a, m, i + 1, s \div Base)

\* a * m, for a limb m (0 <= m < Base).
BNMulSmall(a, m) == IF m = 0 \/ Len(a) = 0 THEN <<>> ELSE BNMulSmallAt(a, m, 1, 0)

\* a * Base^k.
BNShift(a, k) == IF Len(a) = 0 THEN a ELSE [i \in 1..k |-> 0] \o a

\* a times the limbs lo..hi of b, in place.
RECURSIVE BNMulRange(_, _, _, _)
BNMulRange(a, b, lo, hi) ==
    IF lo = hi THEN BNShift(BNMulSmall(a, b[lo]), lo - 1)
    ELSE BNAdd(BNMulRange(a, b, lo, (lo + hi) \div 2),
               BNMulRange(a, b, (lo + hi) \div 2 + 1, hi))

BNMul(a, b) ==
    IF Len(a) = 0 \/ Len(b) = 0 THEN <<>>
    ELSE IF Len(a) <= 1 /\ Len(b) <= 1 THEN BNFromNat(BNToNat(a) * BNToNat(b))
    ELSE BNMulRange(a, b, 1, Len(b))

\* a div d for an integer d in 1..Base-1: short division from the top limb i
\* down, rem the remainder of the limbs above i.
RECURSIVE BNDivSmallAt(_, _, _, _)
BNDivSmallAt(a, d, i, rem) ==
    IF i = 0 THEN <<>>
    ELSE IF rem * Base + a[i] < d
    THEN BNDivSmallAt(a, d, i - 1, rem * Base + a[i]) \o <<0>>
    ELSE BNDivSmallAt(a, d, i - 1, (rem * Base + a[i]) % d)
             \o <<(rem * Base + a[i]) \div d>>

BNDivSmall(a, d) == IF d = 1 THEN a ELSE BNTrim(BNDivSmallAt(a, d, Len(a), 0))

\* The largest q <= qhat with q * b <= r.
RECURSIVE BNQuotFix(_, _, _)
BNQuotFix(r, b, qhat) ==
    IF BNCmp(BNMulSmall(b, qhat), r) <= 0 THEN qhat ELSE BNQuotFix(r, b, qhat - 1)

\* The quotient digit of r by b (r < b * Base): estimated from the top limbs,
\* then corrected downwards.
BNQuotEstimate(r, b) ==
    (BNLimb(r, Len(b) + 1) * Base + BNLimb(r, Len(b))) \div b[Len(b)]

BNQuotDigit(r, b) ==
    IF BNCmp(r, b) < 0 THEN 0
    ELSE IF BNQuotEstimate(r, b) > Base - 1 THEN BNQuotFix(r, b, Base - 1)
    ELSE BNQuotFix(r, b, BNQuotEstimate(r, b))

\* Long division of a by b # 0, from a's limb i down: <<quotient, remainder>>
\* given the remainder r (< b) of the limbs above i.
RECURSIVE BNDivAt(_, _, _, _)

BNDivPut(q, rest) == <<rest[1] \o <<q>>, rest[2]>>

BNDivDigit(a, b, i, r1, q) ==
    IF q = 0 THEN BNDivPut(0, BNDivAt(a, b, i - 1, r1))
    ELSE BNDivPut(q, BNDivAt(a, b, i - 1, BNSub(r1, BNMulSmall(b, q))))

BNDivStep(a, b, i, r1) == BNDivDigit(a, b, i, r1, BNQuotDigit(r1, b))

BNDivAt(a, b, i, r) ==
    IF i = 0 THEN <<(<<>>), r>>
    ELSE BNDivStep(a, b, i, BNTrim(<<a[i]>> \o r))

\* a and b scaled by d so that b's top limb is at least Base / 2, Len(a) >= Len(b):
\* the top Len(b) - 1 limbs of a are below b and start the remainder.
BNDivScaled(a, b, d) ==
    BNDivAt(a, b, Len(a) - Len(b) + 1, SubSeq(a, Len(a) - Len(b) + 2, Len(a)))

BNDivUnscale(qr, d) == <<BNTrim(qr[1]), BNDivSmall(qr[2], d)>>

BNDivBy(a, b, d) ==
    BNDivUnscale(BNDivScaled(BNMulSmall(a, d), BNMulSmall(b, d), d), d)

\* <<a div b, a mod b>>, for b # 0.
BNDivMod(a, b) ==
    IF BNSmall(a) /\ BNSmall(b)
    THEN <<BNFromNat(BNToNat(a) \div BNToNat(b)), BNFromNat(BNToNat(a) % BNToNat(b))>>
    ELSE IF BNCmp(a, b) < 0 THEN <<(<<>>), a>>
    ELSE BNDivBy(a, b, Base \div (b[Len(b)] + 1))

BNMod(a, b) == BNDivMod(a, b)[2]

BNDiv(a, b) == IF b = <<1>> THEN a ELSE BNDivMod(a, b)[1]

\* Euclid's algorithm on the pair s = <<a, b>>.  2^k steps are taken in a
\* recursion of depth k.
BNGcdStep(s) == IF Len(s[2]) = 0 THEN s ELSE <<s[2], BNMod(s[1], s[2])>>

RECURSIVE BNGcdIter(_, _)
BNGcdIter(s, k) ==
    IF Len(s[2]) = 0 THEN s
    ELSE IF k = 0 THEN BNGcdStep(s)
    ELSE BNGcdIter(BNGcdIter(s, k - 1), k - 1)

\* The least k with 2^k >= n.
RECURSIVE Log2Ceil(_)
Log2Ceil(n) == IF n <= 1 THEN 0 ELSE 1 + Log2Ceil((n + 1) \div 2)

\* Euclid takes fewer than 5 steps per decimal digit of the smaller operand,
\* after a first step that orders the operands.
BNGcd(a, b) ==
    IF b = <<1>> \/ a = <<1>> THEN <<1>>
    ELSE BNGcdIter(<<a, b>>,
                   Log2Ceil(20 * (IF Len(a) < Len(b) THEN Len(a) ELSE Len(b)) + 3))[1]

(***************************************************************************)
(* Rationals: a sign and a fraction in lowest terms; zero is +0/1.         *)
(***************************************************************************)
RZero == [neg |-> FALSE, num |-> <<>>, den |-> <<1>>]

RReduce(neg, num, den, g) ==
    [neg |-> neg, num |-> BNDiv(num, g), den |-> BNDiv(den, g)]

RMake(neg, num, den) ==
    IF Len(num) = 0 THEN RZero ELSE RReduce(neg, num, den, BNGcd(num, den))

RInt(n) == [neg |-> n < 0, num |-> BNFromNat(IF n < 0 THEN -n ELSE n), den |-> <<1>>]

\* n / d for integers n and d > 0.
RFrac(n, d) == RMake(n < 0, BNFromNat(IF n < 0 THEN -n ELSE n), BNFromNat(d))

RIsZero(x) == Len(x.num) = 0

RNeg(x) == IF RIsZero(x) THEN x ELSE [x EXCEPT !.neg = ~x.neg]

RAbs(x) == [x EXCEPT !.neg = FALSE]

\* x + y = (+-a +- b) / (x.den * y.den / d1), with d1 = gcd(x.den, y.den),
\* a = x.num * (y.den / d1), b = y.num * (x.den / d1), t = |+-a +- b| and
\* d2 = gcd(t, d1): the sum in lowest terms is (t / d2) / ((x.den / d1) * (y.den / d2)).
RAddLowest(x, y, d1, neg, t, d2) ==
    [neg |-> neg, num |-> BNDiv(t, d2),
     den |-> BNMul(BNDiv(x.den, d1), BNDiv(y.den, d2))]

RAddSigned(x, y, d1, neg, t) ==
    IF Len(t) = 0 THEN RZero ELSE RAddLowest(x, y, d1, neg, t, BNGcd(t, d1))

RAddCross(x, y, d1, a, b) ==
    IF x.neg = y.neg THEN RAddSigned(x, y, d1, x.neg, BNAdd(a, b))
    ELSE IF BNCmp(a, b) >= 0 THEN RAddSigned(x, y, d1, x.neg, BNSub(a, b))
    ELSE RAddSigned(x, y, d1, y.neg, BNSub(b, a))

RAddOver(x, y, d1) ==
    RAddCross(x, y, d1, BNMul(x.num, BNDiv(y.den, d1)), BNMul(y.num, BNDiv(x.den, d1)))

RAdd(x, y) ==
    IF RIsZero(y) THEN x
    ELSE IF RIsZero(x) THEN y
    ELSE RAddOver(x, y, BNGcd(x.den, y.den))

RSub(x, y) == RAdd(x, RNeg(y))

\* x * y in lowest terms, with g1 = gcd(x.num, y.den) and g2 = gcd(y.num, x.den).
RMulLowest(x, y, g1, g2) ==
    [neg |-> x.neg # y.neg,
     num |-> BNMul(BNDiv(x.num, g1), BNDiv(y.num, g2)),
     den |-> BNMul(BNDiv(x.den, g2), BNDiv(y.den, g1))]

RMul(x, y) ==
    IF RIsZero(x) \/ RIsZero(y) THEN RZero
    ELSE RMulLowest(x, y, BNGcd(x.num, y.den), BNGcd(y.num, x.den))

\* 1 / y, for y # 0.
RInv(y) == [neg |-> y.neg, num |-> y.den, den |-> y.num]

\* x / y, for y # 0.
RDiv(x, y) == RMul(x, RInv(y))

RLtCross(neg, c) == IF neg THEN c > 0 ELSE c < 0

RLt(x, y) ==
    IF x.neg # y.neg THEN x.neg
    ELSE RLtCross(x.neg, BNCmp(BNMul(x.num, y.den), BNMul(y.num, x.den)))

RLe(x, y) == ~RLt(y, x)

(***************************************************************************)
(* The function under study.  visualize() compiles the text of the         *)
(* function entry into a callable and its symbolic derivative into         *)
(* another.  Here a function is a polynomial with integer coefficients,    *)
(* highest power first, evaluated by Horner's rule.                        *)
(***************************************************************************)
\* The value at x of the polynomial of p's first k coefficients.
RECURSIVE PolyEvalAt(_, _, _)
PolyEvalAt(p, x, k) ==
    IF k = 0 THEN RZero
    ELSE RAdd(RMul(PolyEvalAt(p, x, k - 1), x), RInt(p[k]))

\* func(x)
Apply(p, x) == PolyEvalAt(p, x, Len(p))

\* diff(func_expr, x)
Diff(p) ==
    IF Len(p) <= 1 THEN <<0>>
    ELSE [k \in 1..(Len(p) - 1) |-> p[k] * (Len(p) - k)]

(***************************************************************************)
(* Inputs                                                                  *)
(***************************************************************************)
MaxIter == 3
MaxSeed == 2

\* x^2 - 2, x^2 + 1, x^3, x^2, 2x - 1, x
Funcs ==
    { <<1, 0, -2>>, <<1, 0, 1>>, <<1, 0, 0, 0>>, <<1, 0, 0>>, <<2, -1>>, <<1, 0>> }

Seeds == { RInt(n) : n \in -1..MaxSeed }

\* 1e-6 (the tolerance entry's default), 1/2 and 2
Tols == { RFrac(1, 1000000), RFrac(1, 2), RInt(2) }

MaxIters == 0..MaxIter

\* The default of the iterations entry.
DefaultMaxIter == 50

(***************************************************************************)
(* State                                                                   *)
(***************************************************************************)
VARIABLES
    alg,         \* the algorithm called: "none" before the call
    args,        \* the call's arguments, as passed
    env,         \* the call's local variables: name -> value, bound names only
    iterations,  \* the list `iterations`
    i,           \* loop iterations performed so far
    pc,          \* "idle", "loop", "done" (returned) or "raised" (exception)
    exit,        \* how the loop was left: "none", "invalid", "tolerance",
                 \* "stalled" or "exhausted"
    result       \* the returned tuple (root, iterations)

vars == <<alg, args, env, iterations, i, pc, exit, result>>

\* Python's None, and a value that is not None.
None == <<>>
Some(v) == <<v>>

Bound(e, n) == n \in DOMAIN e
Bind(e, n, v) == [k \in (DOMAIN e) \cup {n} |-> IF k = n THEN v ELSE e[k]]

Init ==
    /\ alg = "none"
    /\ args = <<>>
    /\ env = <<>>
    /\ iterations = <<>>
    /\ i = 0
    /\ pc = "idle"
    /\ exit = "none"
    /\ result = <<>>

\* `return <name>, iterations` with the locals e and the list its, the loop
\* left by `how`: reading a local that was never assigned raises
\* UnboundLocalError.
Return(e, its, name, how) ==
    /\ env' = e
    /\ iterations' = its
    /\ exit' = how
    /\ IF Bound(e, name)
       THEN /\ pc' = "done"
            /\ result' = [root |-> Some(e[name]), iterations |-> Some(its)]
       ELSE /\ pc' = "raised"
            /\ result' = result

\* Fault: the loop bound taken inclusively, range(max_iter + 1).
LoopRunsInclusive(n, max_iter) == n <= max_iter

\* for _ in range(max_iter): another iteration follows the i performed.
LoopRuns(n, max_iter) == n < max_iter

\* The stall guards' threshold, 1e-10.
StallThreshold == RDiv(RInt(1), RMul(RInt(100000), RInt(100000)))

(***************************************************************************)
(* bisection(func, a, b, tol, max_iter)                                    *)
(***************************************************************************)
\* Fault: the bracket test written with > where the code has >=.
InvalidBracketStrict(func, a, b) ==
    RLt(RInt(0), RMul(Apply(func, a), Apply(func, b)))

InvalidBracket(func, a, b) ==
    ~RLt(RMul(Apply(func, a), Apply(func, b)), RInt(0))

\* Fault: the midpoint written without its parentheses, a + b / 2.
MidpointPrecedence(a, b) == RAdd(a, RDiv(b, RInt(2)))

Midpoint(a, b) == RDiv(RAdd(a, b), RInt(2))

\* Fault: the stopping test without its residual half, abs(b - a) < tol only.
BisectionStopWidthOnly(func, a, b, c, tol) == RLt(RAbs(RSub(b, a)), tol)

BisectionStop(func, a, b, c, tol) ==
    \/ RLt(RAbs(Apply(func, c)), tol)
    \/ RLt(RAbs(RSub(b, a)), tol)

\* Fault: the two branches of the update exchanged.
BisectionUpdateSwapped(func, e, c) ==
    IF RLt(RMul(Apply(func, e["a"]), Apply(func, c)), RInt(0))
    THEN Bind(e, "a", c)
    ELSE Bind(e, "b", c)

\* if func(a) * func(c) < 0: b = c   else: a = c
BisectionUpdate(func, e, c) ==
    IF RLt(RMul(Apply(func, e["a"]), Apply(func, c)), RInt(0))
    THEN Bind(e, "b", c)
    ELSE Bind(e, "a", c)

BisectionEnter(func, a, b, tol, max_iter) ==
    /\ pc = "idle"
    /\ alg' = "bisection"
    /\ args' = [func |-> func, a |-> a, b |-> b, tol |-> tol, max_iter |-> max_iter]
    /\ env' = [a |-> a, b |-> b]
    /\ iterations' = <<>>
    /\ i' = 0
    /\ IF InvalidBracket(func, a, b)
       THEN /\ pc' = "done"
            /\ exit' = "invalid"
            /\ result' = [root |-> None, iterations |-> None]
       ELSE /\ pc' = "loop"
            /\ exit' = "none"
            /\ result' = result

BisectionCall ==
    \E func \in Funcs, a \in Seeds, b \in Seeds, tol \in Tols, max_iter \in MaxIters :
        BisectionEnter(func, a, b, tol, max_iter)

\* Fault: the midpoint appended after the stopping test instead of before it,
\* so that the midpoint that stops the loop never enters the list.
BisectionBodyLateAppend(c) ==
    /\ i' = i + 1
    /\ IF BisectionStop(args.func, env["a"], env["b"], c, args.tol)
       THEN Return(Bind(env, "c", c), iterations, "c", "tolerance")
       ELSE /\ env' = BisectionUpdate(args.func, Bind(env, "c", c), c)
            /\ iterations' = Append(iterations, c)
            /\ UNCHANGED <<pc, exit, result>>

\* The loop body, lines 17-26, with the midpoint c.
BisectionBody(c) ==
    /\ i' = i + 1
    /\ IF BisectionStop(args.func, env["a"], env["b"], c, args.tol)
       THEN Return(Bind(env, "c", c), Append(iterations, c), "c", "tolerance")
       ELSE /\ env' = BisectionUpdate(args.func, Bind(env, "c", c), c)
            /\ iterations' = Append(iterations, c)
            /\ UNCHANGED <<pc, exit, result>>

BisectionIter ==
    /\ pc = "loop"
    /\ alg = "bisection"
    /\ LoopRuns(i, args.max_iter)
    /\ BisectionBody(Midpoint(env["a"], env["b"]))
    /\ UNCHANGED <<alg, args>>

BisectionExhausted ==
    /\ pc = "loop"
    /\ alg = "bisection"
    /\ ~LoopRuns(i, args.max_iter)
    /\ Return(env, iterations, "c", "exhausted")
    /\ UNCHANGED <<alg, args, i>>

(***************************************************************************)
(* newton_raphson(func, dfunc, x0, tol, max_iter)                          *)
(***************************************************************************)
\* Fault: the stall guard as a test for an exactly zero derivative.
NewtonStallZero(dfx) == RIsZero(dfx)

NewtonStall(dfx) == RLt(RAbs(dfx), StallThreshold)

\* Fault: the Newton step taken with the wrong sign.
NewtonUpdatePlus(x0, fx, dfx) == RAdd(x0, RDiv(fx, dfx))

NewtonUpdate(x0, fx, dfx) == RSub(x0, RDiv(fx, dfx))

\* abs(x1 - x0) < tol, and Secant's abs(x2 - x1) < tol
Converged(new, old, tol) == RLt(RAbs(RSub(new, old)), tol)

NewtonEnter(func, dfunc, x0, tol, max_iter) ==
    /\ pc = "idle"
    /\ alg' = "newton_raphson"
    /\ args' = [func |-> func, dfunc |-> dfunc, x0 |-> x0, tol |-> tol,
                max_iter |-> max_iter]
    /\ env' = [x0 |-> x0]
    /\ iterations' = <<x0>>
    /\ i' = 0
    /\ pc' = "loop"
    /\ exit' = "none"
    /\ result' = result

\* visualize() passes the symbolic derivative of func as dfunc.
NewtonCall ==
    \E func \in Funcs, x0 \in Seeds, tol \in Tols, max_iter \in MaxIters :
        NewtonEnter(func, Diff(func), x0, tol, max_iter)

\* Lines 42-47, with the locals e (fx and dfx bound) and the new estimate x1.
NewtonAdvance(e, x1) ==
    IF Converged(x1, env["x0"], args.tol)
    THEN Return(Bind(e, "x1", x1), Append(iterations, x1), "x1", "tolerance")
    ELSE /\ env' = Bind(Bind(e, "x1", x1), "x0", x1)
         /\ iterations' = Append(iterations, x1)
         /\ UNCHANGED <<pc, exit, result>>

\* The loop body, lines 35-47, with fx = func(x0) and dfx = dfunc(x0).
NewtonBody(fx, dfx) ==
    /\ i' = i + 1
    /\ IF NewtonStall(dfx)
       THEN Return(Bind(Bind(env, "fx", fx), "dfx", dfx), iterations, "x1", "stalled")
       ELSE NewtonAdvance(Bind(Bind(env, "fx", fx), "dfx", dfx),
                          NewtonUpdate(env["x0"], fx, dfx))

NewtonIter ==
    /\ pc = "loop"
    /\ alg = "newton_raphson"
    /\ LoopRuns(i, args.max_iter)
    /\ NewtonBody(Apply(args.func, env["x0"]), Apply(args.dfunc, env["x0"]))
    /\ UNCHANGED <<alg, args>>

NewtonExhausted ==
    /\ pc = "loop"
    /\ alg = "newton_raphson"
    /\ ~LoopRuns(i, args.max_iter)
    /\ Return(env, iterations, "x1", "exhausted")
    /\ UNCHANGED <<alg, args, i>>

(***************************************************************************)
(* secant(func, x0, x1, tol, max_iter)                                     *)
(***************************************************************************)
SecantStall(f0, f1) == RLt(RAbs(RSub(f1, f0)), StallThreshold)

SecantUpdate(x0, x1, f0, f1) ==
    RSub(x1, RDiv(RMul(f1, RSub(x1, x0)), RSub(f1, f0)))

SecantEnter(func, x0, x1, tol, max_iter) ==
    /\ pc = "idle"
    /\ alg' = "secant"
    /\ args' = [func |-> func, x0 |-> x0, x1 |-> x1, tol |-> tol,
                max_iter |-> max_iter]
    /\ env' = [x0 |-> x0, x1 |-> x1]
    /\ iterations' = <<x0, x1>>
    /\ i' = 0
    /\ pc' = "loop"
    /\ exit' = "none"
    /\ result' = result

SecantCall ==
    \E func \in Funcs, x0 \in Seeds, x1 \in Seeds, tol \in Tols, max_iter \in MaxIters :
        SecantEnter(func, x0, x1, tol, max_iter)

\* Lines 62-67, with the locals e (f0 and f1 bound) and the new estimate x2.
SecantAdvance(e, x2) ==
    IF Converged(x2, env["x1"], args.tol)
    THEN Return(Bind(e, "x2", x2), Append(iterations, x2), "x2", "tolerance")
    ELSE /\ env' = Bind(Bind(Bind(e, "x2", x2), "x0", env["x1"]), "x1", x2)
         /\ iterations' = Append(iterations, x2)
         /\ UNCHANGED <<pc, exit, result>>

\* The loop body, lines 56-67, with f0 = func(x0) and f1 = func(x1).
SecantBody(f0, f1) ==
    /\ i' = i + 1
    /\ IF SecantStall(f0, f1)
       THEN Return(Bind(Bind(env, "f0", f0), "f1", f1), iterations, "x2", "stalled")
       ELSE SecantAdvance(Bind(Bind(env, "f0", f0), "f1", f1),
                          SecantUpdate(env["x0"], env["x1"], f0, f1))

SecantIter ==
    /\ pc = "loop"
    /\ alg = "secant"
    /\ LoopRuns(i, args.max_iter)
    /\ SecantBody(Apply(args.func, env["x0"]), Apply(args.func, env["x1"]))
    /\ UNCHANGED <<alg, args>>

SecantExhausted ==
    /\ pc = "loop"
    /\ alg = "secant"
    /\ ~LoopRuns(i, args.max_iter)
    /\ Return(env, iterations, "x2", "exhausted")
    /\ UNCHANGED <<alg, args, i>>

Next ==
    \/ BisectionCall
    \/ BisectionIter
    \/ BisectionExhausted
    \/ NewtonCall
    \/ NewtonIter
    \/ NewtonExhausted
    \/ SecantCall
    \/ SecantIter
    \/ SecantExhausted

Spec == Init /\ [][Next]_vars

(***************************************************************************)
(* Scenario 5: newton_raphson on f(x) = x^3 from x0 = 1.0, which takes     *)
(* more iterations than the general inputs allow.                          *)
(***************************************************************************)
Cubic == <<1, 0, 0, 0>>

\* 1e-6, 1e-3 and 1/2
Scenario5Tols == { RFrac(1, 1000000), RFrac(1, 1000), RFrac(1, 2) }

Scenario5MaxIters == { 1, 10, 30, 31, DefaultMaxIter }

Scenario5Call ==
    \E tol \in Scenario5Tols, max_iter \in Scenario5MaxIters :
        NewtonEnter(Cubic, Diff(Cubic), RInt(1), tol, max_iter)

NextScenario5 ==
    \/ Scenario5Call
    \/ NewtonIter
    \/ NewtonExhausted

SpecScenario5 == Init /\ [][NextScenario5]_vars

(***************************************************************************)
(* Properties                                                              *)
(***************************************************************************)
Last(s) == s[Len(s)]

\* The run returned an estimate: it left the loop and the return statement
\* found its local bound.
ReturnedEstimate ==
    pc = "done" /\ exit \in {"tolerance", "stalled", "exhausted"}

\* C1, as specified: whenever a stall guard trips in newton_raphson or secant,
\* at any iteration and the first included, the call returns normally with
\* the current estimate and the trace built so far; no exception escapes.
\* The code does not deliver this: a guard that trips in the first iteration
\* reaches the return statement with x1 (x2) never assigned.
C1_StallReturnsNormally ==
    exit = "stalled" =>
        /\ pc = "done"
        /\ result.iterations = Some(iterations)
        /\ result.root = Some(Last(iterations))

\* f(a) * f(b) at the endpoints bisection was called with.
C2_Product == RMul(Apply(args.func, args.a), Apply(args.func, args.b))

\* C2: bisection called with f(a) * f(b) >= 0 ends with the invalid-bracket
\* outcome before any iteration: no midpoint is computed, the list stays
\* empty and the result carries neither an estimate nor a trace, whatever
\* the tolerance and the iteration cap.
C2_InvalidBracketRejected ==
    (alg = "bisection" /\ ~RLt(C2_Product, RInt(0))) =>
        /\ pc = "done"
        /\ exit = "invalid"
        /\ result = [root |-> None, iterations |-> None]
        /\ i = 0
        /\ iterations = <<>>
        /\ ~Bound(env, "c")

\* A call rejected because an endpoint is an exact root, under the largest
\* iteration cap.
C2_Witness ==
    /\ alg = "bisection"
    /\ pc = "done"
    /\ exit = "invalid"
    /\ RIsZero(C2_Product)
    /\ args.max_iter = MaxIter

\* A bisection iteration that does not meet a stopping criterion.
C3_Continues ==
    /\ alg = "bisection"
    /\ pc = "loop"
    /\ pc' = "loop"
    /\ i' = i + 1

\* The iteration's midpoint is (a + b) / 2.
C3_Midpoint == env'["c"] = RDiv(RAdd(env["a"], env["b"]), RInt(2))

\* f(a) * f(c) < 0 for the iteration's a and its midpoint c.
C3_SignChangeLeft ==
    RLt(RMul(Apply(args.func, env["a"]), Apply(args.func, env'["c"])), RInt(0))

\* C3, as specified: in every bisection iteration that does not stop, with
\* c = (a + b) / 2, if f(a) * f(c) < 0 then a is replaced by c and b is left
\* unchanged; otherwise b is replaced by c and a is left unchanged.
C3_UpdateAsSpecified ==
    [][C3_Continues =>
        /\ C3_Midpoint
        /\ IF C3_SignChangeLeft
           THEN env'["a"] = env'["c"] /\ env'["b"] = env["b"]
           ELSE env'["b"] = env'["c"] /\ env'["a"] = env["a"]]_vars

\* C3, amended: in every bisection iteration that does not stop, with
\* c = (a + b) / 2, if f(a) * f(c) < 0 then b is replaced by c and a is left
\* unchanged; otherwise a is replaced by c and b is left unchanged.
C3_UpdateAsCoded ==
    [][C3_Continues =>
        /\ C3_Midpoint
        /\ IF C3_SignChangeLeft
           THEN env'["b"] = env'["c"] /\ env'["a"] = env["a"]
           ELSE env'["a"] = env'["c"] /\ env'["b"] = env["b"]]_vars

\* A bisection still running after both branches of the update were taken:
\* both endpoints have moved.
C3_Witness ==
    /\ alg = "bisection"
    /\ pc = "loop"
    /\ i >= 2
    /\ env["a"] # args.a
    /\ env["b"] # args.b

\* The local that holds the newest approximation.
C4_Estimate ==
    IF alg = "bisection" THEN "c"
    ELSE IF alg = "newton_raphson" THEN "x1"
    ELSE "x2"

\* A run that returns an estimate under a positive cap returns the list it
\* built, non-empty, and the list's last element as the root.
C4_Returned ==
    (ReturnedEstimate /\ args.max_iter > 0) =>
        /\ result.iterations = Some(iterations)
        /\ Len(iterations) > 0
        /\ result.root = Some(Last(iterations))

\* Within a call the list changes only by appending the approximation the
\* iteration has just generated.
C4_InOrder ==
    iterations' # iterations =>
        \/ pc = "idle"
        \/ iterations' = Append(iterations, env'[C4_Estimate])

\* C4: every run of bisection, newton_raphson or secant that returns an
\* estimate (on tolerance, on the stall guard or by exhausting a positive
\* cap) returns a non-empty trace that lists the approximations in the order
\* they were generated and whose last element equals the returned root.
C4_TraceEndsAtRoot == [] C4_Returned /\ [][C4_InOrder]_vars

\* A run that returned through the stall guard after at least one update.
C4_Witness ==
    /\ ReturnedEstimate
    /\ exit = "stalled"
    /\ args.max_iter > 0
    /\ Len(iterations) >= 2
    /\ result.root = Some(Last(iterations))

\* max_iterations plus one for bisection and newton_raphson, plus two for secant.
C5_TraceBound ==
    IF alg = "secant" THEN args.max_iter + 2 ELSE args.max_iter + 1

\* C5: in all three algorithms the number of loop iterations performed never
\* exceeds max_iterations, and at every point of the run the trace is no
\* longer than max_iterations + 1 (bisection, newton_raphson) or
\* max_iterations + 2 (secant); so is the returned trace.
C5_IterationCap ==
    pc # "idle" =>
        /\ i <= args.max_iter
        /\ Len(iterations) <= C5_TraceBound
        /\ ReturnedEstimate => Len(result.iterations[1]) <= C5_TraceBound

\* A secant run that used up the largest cap: the bound is met with equality.
C5_Witness ==
    /\ alg = "secant"
    /\ pc = "done"
    /\ exit = "exhausted"
    /\ args.max_iter = MaxIter
    /\ i = args.max_iter
    /\ Len(iterations) = args.max_iter + 2

\* A bisection on a valid bracket a0 < b0 in which no stopping criterion
\* fired during the i iterations performed.
C6_NoStopSoFar ==
    /\ alg = "bisection"
    /\ pc = "loop"
    /\ RLt(args.a, args.b)

\* After n iterations without a stop the width is (b0 - a0) / 2^n and the
\* trace holds n entries.
C6_Width ==
    C6_NoStopSoFar =>
        /\ RMul(RSub(env["b"], env["a"]), RInt(2 ^ i)) = RSub(args.b, args.a)
        /\ Len(iterations) = i

\* The width does not increase from one iteration to the next.
C6_NonIncreasing ==
    C6_NoStopSoFar =>
        RLe(RSub(env'["b"], env'["a"]), RSub(env["b"], env["a"]))

\* C6: in a bisection on a valid bracket (a0 < b0, f(a0) * f(b0) < 0) in which
\* no stopping criterion fires during the first n iterations, the width b - a
\* after those n iterations is exactly (b0 - a0) / 2^n, the width never
\* increases from one iteration to the next, and the trace holds n entries.
C6_BracketHalves == [] C6_Width /\ [][C6_NonIncreasing]_vars

\* As many iterations as the largest cap allows, none of which stopped.
C6_Witness ==
    /\ C6_NoStopSoFar
    /\ i = MaxIter
    /\ Len(iterations) = MaxIter
    /\ RLt(RSub(env["b"], env["a"]), RSub(args.b, args.a))

\* Scenario 3: newton_raphson on x^2 + 1 from x0 = 1.0 with a tolerance in
\* (0, 1) and a cap of at least 2.
C7_Scenario3 ==
    /\ alg = "newton_raphson"
    /\ args.func = <<1, 0, 1>>
    /\ args.dfunc = <<2, 0>>
    /\ args.x0 = RInt(1)
    /\ RLt(RZero, args.tol)
    /\ RLt(args.tol, RInt(1))
    /\ args.max_iter >= 2

\* C7, as specified: in scenario 3 the stall guard is never triggered, and
\* the run ends only by exhausting max_iterations, after exactly
\* max_iterations iterations.
C7_NeverStalls ==
    C7_Scenario3 =>
        /\ exit # "stalled"
        /\ pc # "loop" => (exit = "exhausted" /\ i = args.max_iter)

\* C7, amended: in scenario 3 the first iteration yields x1 = 0, where
\* f'(0) = 0, so the stall guard trips in the second iteration: the run
\* never exhausts max_iterations, it returns the estimate 0 with the trace
\* [1, 0] after one update.
C7_StallsAtSecondIteration ==
    C7_Scenario3 =>
        /\ pc = "loop" => (i <= 1 /\ exit = "none")
        /\ i = 1 => iterations = <<RInt(1), RZero>>
        /\ pc # "loop" =>
              /\ pc = "done"
              /\ exit = "stalled"
              /\ i = 2
              /\ iterations = <<RInt(1), RZero>>
              /\ result = [root |-> Some(RZero), iterations |-> Some(iterations)]

\* Scenario 3 after its return, under the default tolerance.
C7_Witness ==
    /\ C7_Scenario3
    /\ args.tol = RFrac(1, 1000000)
    /\ args.max_iter = MaxIter
    /\ pc = "done"
    /\ exit = "stalled"

\* C8, as specified: every returned result carries a status naming the
\* terminal state the run ended in, so that a run stopped by the cap or by a
\* stall guard is reported differently from one stopped by the tolerance.
\* The code returns the pair (root, iterations) and nothing else.
C8_ResultCarriesStatus ==
    pc = "done" =>
        /\ "status" \in DOMAIN result
        /\ result.status = exit

\* Powers of 3 beyond the 15th exceed the machine integers of the checker;
\* (2/3)^n is built from two factors, for n up to 30.
TwoThirds(n) ==
    [neg |-> FALSE,
     num |-> BNFromNat(2 ^ n),
     den |-> BNMul(BNFromNat(3 ^ (n \div 2)), BNFromNat(3 ^ (n - (n \div 2))))]

\* C9, as specified: newton_raphson on x^3 from x0 = 1.0 ends only on the
\* tolerance or on the cap, never because the stall guard tripped.
C9_NeverStalls ==
    /\ exit # "stalled"
    /\ pc = "done" => exit \in {"tolerance", "exhausted"}

\* The largest tolerance the iterates x_0 .. x_30 do not meet:
\* x_29 - x_30 = 2^29 / 3^30.
C9_TolLimit == RDiv(TwoThirds(29), RInt(3))

\* C9, amended: newton_raphson on x^3 from x0 = 1.0 performs at most
\* max_iterations iterations, its trace is 1, 2/3, (2/3)^2, ..., and it ends
\* on the tolerance, on the cap or on the stall guard.  The guard trips in
\* iteration 31, where 3 x^2 < 1e-10 at x = (2/3)^30, exactly when
\* max_iterations >= 31 and the tolerance is at most 2^29 / 3^30 (about
\* 2.6e-6): with tolerance 1e-6 and max_iterations 50 the run returns
\* (2/3)^30 with a trace of 31 entries.
C9_StallsAtIteration31 ==
    pc # "idle" =>
        /\ i <= args.max_iter
        /\ i <= 31
        /\ Len(iterations) <= 31
        /\ pc # "raised"
        /\ \A k \in 1..Len(iterations) : iterations[k] = TwoThirds(k - 1)
        /\ pc = "done" => exit \in {"tolerance", "exhausted", "stalled"}
        /\ pc = "done" =>
              (exit = "stalled" <=>
                  (args.max_iter >= 31 /\ RLe(args.tol, C9_TolLimit)))
        /\ exit = "stalled" =>
              /\ i = 31
              /\ Len(iterations) = 31
              /\ result.root = Some(TwoThirds(30))

\* The run of the defaults, tolerance 1e-6 and 50 iterations, after its
\* return through the stall guard.
C9_Witness ==
    /\ alg = "newton_raphson"
    /\ args.func = Cubic
    /\ args.tol = RFrac(1, 1000000)
    /\ args.max_iter = DefaultMaxIter
    /\ pc = "done"
    /\ exit = "stalled"
    /\ Len(iterations) = 31

\* A bisection that passed the bracket test on a bracket a0 < b0 with a
\* positive tolerance, at the start of an iteration or at its return.
C10_Bracketed ==
    /\ alg = "bisection"
    /\ pc \in {"loop", "done"}
    /\ exit # "invalid"
    /\ RLt(args.a, args.b)
    /\ RLt(RZero, args.tol)

\* C10: in a bisection with a positive tolerance, once the bracket test has
\* passed on the bracket (a0, b0), every update preserves the sign change: at
\* the start of every iteration and at return f(a) * f(b) < 0 and
\* a0 <= a < b <= b0, and every midpoint of the trace lies strictly inside
\* (a0, b0).
C10_SignChangePreserved ==
    C10_Bracketed =>
        /\ RLt(RMul(Apply(args.func, env["a"]), Apply(args.func, env["b"])), RInt(0))
        /\ RLe(args.a, env["a"])
        /\ RLt(env["a"], env["b"])
        /\ RLe(env["b"], args.b)
        /\ \A k \in 1..Len(iterations) :
              RLt(args.a, iterations[k]) /\ RLt(iterations[k], args.b)

\* A bisection at its return, after updates that moved both endpoints.
C10_Witness ==
    /\ C10_Bracketed
    /\ pc = "done"
    /\ env["a"] # args.a
    /\ env["b"] # args.b
    /\ Len(iterations) = MaxIter

====
